---------------------------- MODULE Spec2Model ----------------------------
(***************************************************************************)
(* Model of the spectral-analysis code cells of                            *)
(* src/Time_Series/Time_Series_S.ipynb.                                    *)
(*                                                                         *)
(* Every code cell of the notebook is a call into numpy / scipy followed   *)
(* by plotting.  A cell is one action: it is handed the arrays the cell    *)
(* reads (drawn in Init from bounded sets) and assigns the kernel          *)
(* variables the cell assigns.                                             *)
(*                                                                         *)
(* Arithmetic is exact where the values allow it.  A real number is a     *)
(* pair <<a, b>> standing for                                              *)
(* a + b*sqrt(3): this ring holds the sines and cosines of every multiple  *)
(* of 30 degrees (doubled), so the discrete Fourier transform of length    *)
(* 1, 2, 3, 4, 6 and 12 is computed without rounding.  Fixed point:        *)
(* samples are stored in halves (the stored sample is twice the real       *)
(* one), transform coefficients in quarters, powers in sixteenths.         *)
(* The Lomb-Scargle periodogram is exact at timestamps and frequencies     *)
(* whose angles are multiples of 90 degrees; for the signal of two tones,  *)
(* whose angles are not, it is computed to six decimals.                   *)
(* Arrays are 0-based, as in Python: functions on 0..n-1.                  *)
(***************************************************************************)
EXTENDS Integers, Sequences, FiniteSets, TLC

VARIABLES
    cell,    \* the code cell this run of the kernel executes
    done,    \* whether the cell has run
    err,     \* the exception the cell ended with, "none" without one
    N,       \* kernel variable N (number of samples of the sine curve)
    f0,      \* kernel variable f0 (frequency of the sine curve)
    x,       \* the samples handed to the transform (x, noise, tmp_x)
    DFT,     \* kernel variable DFT
    freq,    \* kernel variable freq
    freqs,   \* kernel variable freqs
    power,   \* np.abs(DFT)**2, the plotted power
    t,       \* the timestamps handed to lombscargle (t, year, year_doubled)
    frequencies,            \* kernel variable frequencies
    angular_frequencies,    \* kernel variable angular_frequencies
    periodogram,            \* kernel variable periodogram
    half,        \* kernel variable half
    plot_freq,   \* the frequencies of the last plot of a power spectrum
    plot_power,  \* the powers of the last plot of a power spectrum
    periods,     \* 1.0/freqs, the periods the power is plotted against
    N_data,      \* kernel variable N_data
    t_max,       \* kernel variable t_max
    A,           \* kernel variable A (the template)
    B,           \* kernel variable B (the signal)
    C,           \* kernel variable C (the cross-correlation)
    D            \* kernel variable D (the auto-correlation)

fourierVars == <<DFT, freq, freqs, power>>

lsVars == <<t, frequencies, angular_frequencies, periodogram>>

plotVars == <<half, plot_freq, plot_power>>

dataVars == <<N_data, t_max>>

corrVars == <<A, B, C, D>>

vars ==
    <<cell, done, err, N, f0, x, fourierVars, lsVars, plotVars, periods,
      dataVars, corrVars>>

-----------------------------------------------------------------------------
(* Bounds of the model *)

\* sample values of the arbitrary ("noise") inputs range over -MaxVal..MaxVal
MaxVal == 1

\* the frequency f0 of the sine curve ranges over 0..MaxF0
MaxF0 == 5

\* the periodogram is given 1..MaxM timestamp/sample pairs
MaxM == 3

\* timestamps of the periodogram range over 0..MaxT
MaxT == 2

\* requested frequencies range over -1/4, 0, 1/4, ..., MaxW/4 cycles per unit
\* of time
MaxW == 2

\* the long sunspot files hold Shift - MaxGap .. Shift + MaxGap yearly numbers
MaxGap == 2

\* the duration t_max of the signal S ranges over 1..MaxDuration
MaxDuration == 2

\* the template A has 1..MaxTemplate samples
MaxTemplate == 4

\* the simulated signal B has 1..MaxSignal samples
MaxSignal == 5

\* the amplitude of the flare ranges over 1..MaxAmplitude
MaxAmplitude == 2

\* the background level ranges over -MaxBackground..MaxBackground
MaxBackground == 1

\* np.random.poisson draws counts in 0..MaxCount
MaxCount == 2

\* the lengths whose transform is exact in a + b*sqrt(3)
FFTLengths == {1, 2, 3, 4, 6, 12}

\* arbitrary inputs have every length in DenseLengths; those of length 6 and
\* 12 have at most two samples that are not zero
DenseLengths == {0, 1, 2, 3, 4}

-----------------------------------------------------------------------------
(* Exact reals a + b*sqrt(3) *)

RZero == <<0, 0>>

RInt(n) == <<n, 0>>

RAdd(r, s) == <<r[1] + s[1], r[2] + s[2]>>

RNeg(r) == <<-r[1], -r[2]>>

RSub(r, s) == RAdd(r, RNeg(s))

RMul(r, s) == <<r[1] * s[1] + 3 * r[2] * s[2], r[1] * s[2] + r[2] * s[1]>>

\* sign of a + b*sqrt(3): -1, 0 or 1 (sqrt(3) is irrational, so a*a = 3*b*b
\* only at zero)
RSign(r) ==
    LET a == r[1]
        b == r[2]
    IN  IF a = 0 /\ b = 0 THEN 0
        ELSE IF a >= 0 /\ b >= 0 THEN 1
        ELSE IF a <= 0 /\ b <= 0 THEN -1
        ELSE IF a > 0 THEN (IF a * a > 3 * b * b THEN 1 ELSE -1)
        ELSE (IF 3 * b * b > a * a THEN 1 ELSE -1)

RLess(r, s) == RSign(RSub(r, s)) = -1

-----------------------------------------------------------------------------
(* Arrays *)

size(a) == Cardinality(DOMAIN a)

Array(s) == [i \in 0..(Len(s) - 1) |-> s[i + 1]]

EmptyArray == Array(<< >>)

\* np.zeros(n)
zeros(n) == [i \in 0..(n - 1) |-> RZero]

\* a[:h]
Take(a, h) == [i \in 0..((IF h < size(a) THEN h ELSE size(a)) - 1) |-> a[i]]

-----------------------------------------------------------------------------
(* Trigonometry at multiples of 30 degrees; j counts twelfths of a turn *)

\* 2*cos(j*pi/6)
TwoCos12(j) ==
    LET m == j % 12
    IN  CASE m = 0 -> <<2, 0>>
          [] m = 1 -> <<0, 1>>
          [] m = 2 -> <<1, 0>>
          [] m = 3 -> <<0, 0>>
          [] m = 4 -> <<-1, 0>>
          [] m = 5 -> <<0, -1>>
          [] m = 6 -> <<-2, 0>>
          [] m = 7 -> <<0, -1>>
          [] m = 8 -> <<-1, 0>>
          [] m = 9 -> <<0, 0>>
          [] m = 10 -> <<1, 0>>
          [] m = 11 -> <<0, 1>>

\* 2*sin(j*pi/6) = 2*cos((j - 3)*pi/6)
TwoSin12(j) == TwoCos12(j + 9)

-----------------------------------------------------------------------------
(* Complex numbers <<re, im>> over the exact reals *)

CZero == <<RZero, RZero>>

CAdd(z, w) == <<RAdd(z[1], w[1]), RAdd(z[2], w[2])>>

\* the real r times the complex z
CScale(r, z) == <<RMul(r, z[1]), RMul(r, z[2])>>

\* CSum with the accumulator started at one instead of zero
RECURSIVE CSumFromOne(_, _)
CSumFromOne(f, S) ==
    IF S = {} THEN <<RInt(1), RZero>>
    ELSE LET n == CHOOSE m \in S : TRUE
         IN  CAdd(f[n], CSumFromOne(f, S \ {n}))

RECURSIVE CSum(_, _)
CSum(f, S) ==
    IF S = {} THEN CZero
    ELSE LET n == CHOOSE m \in S : TRUE
         IN  CAdd(f[n], CSum(f, S \ {n}))

\* np.abs(z)**2
abs2(z) == RAdd(RMul(z[1], z[1]), RMul(z[2], z[2]))

-----------------------------------------------------------------------------
(* numpy.fft *)

\* whether exp(-2*pi*i*m/n) is a multiple of 30 degrees
Exact(n, m) == (12 * m) % n = 0

\* 2*exp(-2*pi*i*m/n) = 2*cos(2*pi*m/n) - i*2*sin(2*pi*m/n)
\* (defined only where it is exact)
W(n, m) ==
    LET j == (12 * m) \div n
    IN  CASE Exact(n, m) -> <<TwoCos12(j), RNeg(TwoSin12(j))>>

\* the samples that are not zero: a zero sample adds nothing to any bin
Support(a) == {n \in DOMAIN a : a[n] # RZero} \cup {}

\* coefficient k of the discrete Fourier transform of a, S its support:
\* sum over n of a[n] * exp(-2*pi*i*k*n/size(a))
BinOver(a, S, k) ==
    LET len == size(a)
    IN  CSum([n \in S |-> CScale(a[n], W(len, (k * n) % len))], S)

Bin(a, k) == BinOver(a, Support(a), k)

\* fft with its output rotated by one bin
fftOffByOne(a) ==
    IF size(a) < 1
    THEN [raised |-> "ValueError", value |-> EmptyArray]
    ELSE [raised |-> "none",
          value |-> [k \in 0..(size(a) - 1) |-> Bin(a, (k + 1) % size(a))]]

\* fft with the zero-frequency bin moved to the centre (np.fft.fftshift)
fftShifted(a) ==
    IF size(a) < 1
    THEN [raised |-> "ValueError", value |-> EmptyArray]
    ELSE [raised |-> "none",
          value |-> [k \in 0..(size(a) - 1) |->
                        Bin(a, (k + size(a) - size(a) \div 2) % size(a))]]

\* fft without the check of the number of data points
fftUnchecked(a) ==
    [raised |-> "none", value |-> [k \in 0..(size(a) - 1) |-> Bin(a, k)]]

\* np.fft.fft(a): ValueError for no data points, else the size(a) bins
fft(a) ==
    IF size(a) < 1
    THEN [raised |-> "ValueError", value |-> EmptyArray]
    ELSE [raised |-> "none",
          value |-> LET S == Support(a)
                        len == size(a)
                    IN  [k \in 0..(len - 1) |->
                            CSum([n \in S |-> CScale(a[n], W(len, (k * n) % len))], S)]]

\* np.fft.rfft(a): ValueError for no data points, else the bins
\* 0..size(a)//2 of the transform
rfft(a) ==
    IF size(a) < 1
    THEN [raised |-> "ValueError", value |-> EmptyArray]
    ELSE [raised |-> "none",
          value |-> LET S == Support(a)
                        len == size(a)
                    IN  [k \in 0..(len \div 2) |->
                            CSum([n \in S |-> CScale(a[n], W(len, (k * n) % len))], S)]]

\* a rational number num/den
Rat(num, den) == <<num, den>>

\* fftfreq in increasing order: -(n//2), ..., -1, 0, 1, ..., (n-1)//2
fftfreqSorted(n) == [i \in 0..(n - 1) |-> Rat(i - n \div 2, n)]

\* np.fft.fftfreq(n): [0, 1, ..., (n-1)//2, -(n//2), ..., -1] / n
fftfreq(n) ==
    [i \in 0..(n - 1) |->
        IF i <= (n - 1) \div 2 THEN Rat(i, n) ELSE Rat(i - n, n)]

\* np.fft.rfftfreq(n): [0, 1, ..., n//2] / n
rfftfreq(n) == [i \in 0..(n \div 2) |-> Rat(i, n)]

\* freq * num / den for integers num and den > 0
FreqScaled(fr, num, den) ==
    [i \in DOMAIN fr |-> Rat(fr[i][1] * num, fr[i][2] * den)]

\* freq * c for an integer c
FreqTimes(fr, c) == [i \in DOMAIN fr |-> Rat(fr[i][1] * c, fr[i][2])]

\* np.abs(D)**2
Power(dft) == [k \in DOMAIN dft |-> abs2(dft[k])]

-----------------------------------------------------------------------------
(* The signals the cells build *)

\* np.linspace(a, b, n) for a = an/d, b = bn/d: n points, both ends included
linspace(an, bn, d, n) ==
    [i \in 0..(n - 1) |->
        IF n = 1 THEN Rat(an, d)
        ELSE Rat(an * (n - 1) + i * (bn - an), d * (n - 1))]

\* whether sin(2*pi*f*t + phase) is the sine of a multiple of 30 degrees
ExactAngle(f, tm) == (12 * f * tm[1]) % tm[2] = 0

\* np.sin(2*pi*f*t + ph12*pi/6), in halves
\* (defined only where it is exact)
sin2pi(f, tm, ph12) ==
    CASE ExactAngle(f, tm) -> TwoSin12((12 * f * tm[1]) \div tm[2] + ph12)

\* t = np.linspace(-.5, .5, N); phi = np.pi/2; A = 1
\* x = A * np.sin(2*np.pi*f0*t + phi)
SineCurve(n, f) ==
    LET tt == linspace(-1, 1, 2, n)
    IN  [i \in 0..(n - 1) |-> sin2pi(f, tt[i], 3)]

\* the (N, f0) for which every sample of the sine curve is exact
SineParams ==
    {p \in (FFTLengths \cup {0}) \X (0..MaxF0) :
        \A i \in 0..(p[1] - 1) : ExactAngle(p[2], linspace(-1, 1, 2, p[1])[i])}

\* a sinusoid of f whole cycles over its n samples: sin(2*pi*f*i/n + phase)
Sinusoid(n, f, ph12) == [i \in 0..(n - 1) |-> sin2pi(f, Rat(i, n), ph12)]

Sinusoids ==
    {Sinusoid(n, f, ph) : n \in FFTLengths, f \in 0..MaxF0, ph \in 0..11}

\* tmp_x = np.zeros(n); tmp_x[p] = 1.0
Dirac(n, p) == [i \in 0..(n - 1) |-> IF i = p THEN RInt(2) ELSE RZero]

Diracs == UNION {{Dirac(n, p) : p \in 0..(n - 1)} : n \in FFTLengths}

\* np.random.normal(0, .4, N): any reals; here every array of a length in
\* DenseLengths over -MaxVal..MaxVal (in halves), the arrays of length 6 and
\* 12 with two such samples, and the sinusoids
Values == {RInt(v) : v \in (-MaxVal)..MaxVal}

Dense == UNION {[0..(n - 1) -> Values] : n \in DenseLengths}

Sparse ==
    UNION {{[i \in 0..(n - 1) |-> IF i = p THEN a ELSE IF i = q THEN b ELSE RZero] :
              p \in 0..(n - 1), q \in 0..(n - 1), a \in Values, b \in Values} :
           n \in {6, 12}}

Noise == Dense \cup Sparse \cup Sinusoids

-----------------------------------------------------------------------------
(* scipy.signal.lombscargle *)

(* Timestamps are whole units of time and an angular frequency is a whole  *)
(* number w of quarter turns per unit of time (w*pi/2 radians per unit):   *)
(* every angle w*t is a multiple of 90 degrees, its cosine and sine are    *)
(* 0, 1 or -1, and the periodogram is computed without rounding.  A        *)
(* frequency is the rational w/4 cycles per unit of time.                  *)

\* cos(q*pi/2)
Cos4(q) == TwoCos12(3 * q)[1] \div 2

\* sin(q*pi/2)
Sin4(q) == TwoSin12(3 * q)[1] \div 2

\* sum of f(j) over lo <= j <= hi, f(j) an exact real
RECURSIVE RSum(_, _, _)
RSum(f, lo, hi) ==
    IF lo > hi THEN RZero
    ELSE IF lo = hi THEN f[lo]
    ELSE LET mid == (lo + hi) \div 2
         IN  RAdd(RSum(f, lo, mid), RSum(f, mid + 1, hi))

\* float64 values that need not be finite: the fraction num/den, or
\* not-a-number, or infinity
NaN == [kind |-> "nan", num |-> RZero, den |-> RZero]

Inf == [kind |-> "inf", num |-> RZero, den |-> RZero]

\* the float64 division a / b of exact reals, with what IEEE 754 gives for
\* a zero divisor
Div(a, b) ==
    IF b # RZero THEN [kind |-> "num", num |-> a, den |-> b]
    ELSE IF a = RZero THEN NaN
    ELSE Inf

\* one pass of the loop over the requested frequencies: the periodogram of
\* the samples yy at timestamps tt, at angular frequency w
LSPower(tt, yy, w) ==
    LET M == size(tt)
        c == [j \in 0..(M - 1) |-> Cos4(w * tt[j])]
        s == [j \in 0..(M - 1) |-> Sin4(w * tt[j])]
        xc == RSum([j \in 0..(M - 1) |-> RMul(yy[j], RInt(c[j]))], 0, M - 1)
        xs == RSum([j \in 0..(M - 1) |-> RMul(yy[j], RInt(s[j]))], 0, M - 1)
        cc == RSum([j \in 0..(M - 1) |-> RInt(c[j] * c[j])], 0, M - 1)[1]
        ss == RSum([j \in 0..(M - 1) |-> RInt(s[j] * s[j])], 0, M - 1)[1]
        cs == RSum([j \in 0..(M - 1) |-> RInt(c[j] * s[j])], 0, M - 1)[1]
        \* w*tau in quarter turns, tau = atan2(2*cs, cc - ss) / (2*w);
        \* cs = 0 here, so the arc tangent is 0 or pi
        wtau == IF cc - ss >= 0 THEN 0 ELSE 1
        c_tau == Cos4(wtau)
        s_tau == Sin4(wtau)
        cs_tau == 2 * c_tau * s_tau
        a == RAdd(RMul(RInt(c_tau), xc), RMul(RInt(s_tau), xs))
        b == RSub(RMul(RInt(c_tau), xs), RMul(RInt(s_tau), xc))
        da == c_tau * c_tau * cc + cs_tau * cs + s_tau * s_tau * ss
        db == c_tau * c_tau * ss - cs_tau * cs + s_tau * s_tau * cc
    IN  IF w = 0 THEN NaN                 \* tau = 0 / 0
        ELSE IF da = 0 \/ db = 0 THEN NaN \* a = 0 or b = 0 there: 0 / 0
        ELSE \* 0.5 * (a**2 / da + b**2 / db)
             Div(RAdd(RMul(RMul(a, a), RInt(db)), RMul(RMul(b, b), RInt(da))),
                 RInt(2 * da * db))

\* pgram *= 2 / np.dot(y, y)
Normalize(p, yy) ==
    LET dot == RSum([j \in DOMAIN yy |-> RMul(yy[j], yy[j])], 0, size(yy) - 1)
    IN  IF p.kind # "num" THEN p
        ELSE IF dot = RZero
             THEN (IF p.num = RZero THEN NaN ELSE Inf)
        ELSE Div(RMul(RInt(2), p.num), RMul(p.den, dot))

\* lombscargle with its values in the reverse order of the frequencies
lombscargleReversed(tt, yy, ww, normalize) ==
    IF size(tt) # size(yy)
    THEN [raised |-> "ValueError", value |-> EmptyArray]
    ELSE [raised |-> "none",
          value |-> [i \in DOMAIN ww |->
              Normalize(LSPower(tt, yy, ww[size(ww) - 1 - i]), yy)]]

\* lombscargle that rejects fewer than 3 pairs, timestamps that do not
\* increase and frequencies that are not above zero
lombscargleValidating(tt, yy, ww, normalize) ==
    IF \/ size(tt) # size(yy)
       \/ size(tt) < 3
       \/ \E j \in 1..(size(tt) - 1) : tt[j] <= tt[j - 1]
       \/ \E i \in DOMAIN ww : ww[i] <= 0
    THEN [raised |-> "ValueError", value |-> EmptyArray]
    ELSE [raised |-> "none",
          value |-> [i \in DOMAIN ww |-> Normalize(LSPower(tt, yy, ww[i]), yy)]]

\* lombscargle(x, y, freqs, normalize=True): ValueError when x and y differ
\* in size, else one value for each requested frequency
lombscargle(tt, yy, ww, normalize) ==
    IF size(tt) # size(yy)
    THEN [raised |-> "ValueError", value |-> EmptyArray]
    ELSE [raised |-> "none",
          value |-> [i \in DOMAIN ww |->
              IF normalize THEN Normalize(LSPower(tt, yy, ww[i]), yy)
              ELSE LSPower(tt, yy, ww[i])]]

\* angular_frequencies = 2 * np.pi * frequencies: the frequency q/4 cycles
\* per unit of time is q quarter turns per unit of time
Angular(fr) == [i \in DOMAIN fr |-> (4 * fr[i][1]) \div fr[i][2]]

\* the timestamp arrays: 1..MaxM timestamps in 0..MaxT, in any order
Timestamps == UNION {[0..(m - 1) -> 0..MaxT] : m \in 1..MaxM}

\* the signal S on m timestamps: one of two patterns of samples
Signals(m) ==
    {[j \in 0..(m - 1) |-> RInt(2 * ((j + k) % 3) - 2)] : k \in {0, 1}}

\* the frequency grids: one or two frequencies among -1/4, 0, ..., MaxW/4
Grids == UNION {[0..(k - 1) -> {Rat(q, 4) : q \in (-1)..MaxW}] : k \in {1, 2}}

\* year = 1700 + np.arange(len(wolf))
Year(w) == [i \in 0..(size(w) - 1) |-> 1700 + i]

\* np.append(a, b) (@@ << >> has TLC build the array once)
append(a, b) ==
    LET la == size(a)
        lb == size(b)
    IN  [i \in 0..(la + lb - 1) |-> IF i < la THEN a[i] ELSE b[i - la]] @@ << >>

\* a + c for an integer c
Plus(a, c) == [i \in DOMAIN a |-> a[i] + c]

\* frequencies = np.linspace(0.01, 1.0, N_freqs), here N_freqs = 4 from
\* 1/4 to 1 cycle per year
SolarGrid == linspace(1, 4, 4, 4)

\* year + 9 + 288: the years of the second copy of the data
Shift == 9 + 288

\* the lengths of the long files: around Shift, where the last year of the
\* data meets the first year of its copy
LongLengths == (Shift - MaxGap)..(Shift + MaxGap)

\* wolf = np.loadtxt("data/sunspots.txt"): every array of up to 3 numbers
\* over -MaxVal..MaxVal and, of each long length, the array of zeros and
\* the array that is zero but for its first number
Wolf ==
    UNION {[0..(n - 1) -> Values] : n \in {1, 2, 3}}
    \cup {zeros(n) : n \in LongLengths}
    \cup {Dirac(n, 0) : n \in LongLengths}

-----------------------------------------------------------------------------
(* Rounded arithmetic *)

(* Where the angles are not multiples of 90 degrees the periodogram is     *)
(* computed as float64 computes it, but to six decimals: a value is a      *)
(* whole number of millionths, and every operation rounds towards zero.    *)

\* 1.0 in millionths
One == 1000000

Abs(a) == IF a < 0 THEN -a ELSE a

Sgn(a) == IF a < 0 THEN -1 ELSE 1

\* num / den for whole numbers num and den > 0
Fx(num, den) == (num * One) \div den

\* a * b (in parts of three decimals, to stay within TLC's integers)
FMul(a, b) ==
    LET ah == Abs(a) \div 1000
        al == Abs(a) % 1000
        bh == Abs(b) \div 1000
        bl == Abs(b) % 1000
    IN  Sgn(a) * Sgn(b)
            * (ah * bh + (ah * bl + al * bh + (al * bl) \div 1000) \div 1000)

\* the first n decimals of r / b, for 0 <= r < b
RECURSIVE Decimals(_, _, _)
Decimals(r, b, n) ==
    IF n = 0 THEN 0
    ELSE ((10 * r) \div b) * (10 ^ (n - 1)) + Decimals((10 * r) % b, b, n - 1)

\* a / b for b # 0
FDiv(a, b) ==
    Sgn(a) * Sgn(b)
        * ((Abs(a) \div Abs(b)) * One + Decimals(Abs(a) % Abs(b), Abs(b), 6))

\* the largest r in lo..hi-1 with r * r <= a
RECURSIVE Bisect(_, _, _)
Bisect(a, lo, hi) ==
    IF hi - lo <= 1 THEN lo
    ELSE LET mid == (lo + hi) \div 2
         IN  IF FMul(mid, mid) <= a THEN Bisect(a, mid, hi)
             ELSE Bisect(a, lo, mid)

\* the square root of a >= 0
FSqrt(a) == Bisect(a, 0, IF a < One THEN One + 1 ELSE a + 1)

\* np.pi
Pi == 3141593

\* 2 * np.pi
TwoPi == 6283185

\* h - h^3/3! + h^5/5! - ..., from the term in h^k on
RECURSIVE SinSeries(_, _, _)
SinSeries(term, h2, k) ==
    IF term = 0 \/ k > 15 THEN 0
    ELSE term + SinSeries(-(FMul(term, h2) \div ((k + 1) * (k + 2))), h2, k + 2)

\* the angle s of (-pi, pi] brought into [-pi/2, pi/2] with the same sine
Fold(s) ==
    IF 2 * s > Pi THEN Pi - s
    ELSE IF 2 * s < -Pi THEN -Pi - s
    ELSE s

\* the angle r of [0, 2*pi) brought into (-pi, pi]
Wrap(r) == IF r > Pi THEN r - TwoPi ELSE r

\* the sine of an angle h of [-pi/2, pi/2]
SinFolded(h) == SinSeries(h, FMul(h, h), 1)

\* np.sin(a): the series at the angle brought into [-pi/2, pi/2]
FSin(a) == SinFolded(Fold(Wrap(a % TwoPi)))

\* np.cos(a)
FCos(a) == FSin(a + Pi \div 2)

\* sum of f[j] over lo <= j <= hi
RECURSIVE FSum(_, _, _)
FSum(f, lo, hi) == IF lo > hi THEN 0 ELSE f[lo] + FSum(f, lo + 1, hi)

\* <<cos(th/2), sin(th/2)>> from cth = cos(th), sth = sin(th) and big, the
\* larger of the two in absolute value
HalfOf(cth, sth, big) ==
    IF cth >= 0 THEN <<big, Sgn(sth) * FDiv(Abs(sth), 2 * big)>>
    ELSE <<FDiv(Abs(sth), 2 * big), Sgn(sth) * big>>

\* <<cos(th/2), sin(th/2)>> for th the angle of the point (xv, yv) at
\* distance rr > 0 of the origin
HalfAt(yv, xv, rr) ==
    HalfOf(FDiv(xv, rr), FDiv(yv, rr), FSqrt((One + Abs(FDiv(xv, rr))) \div 2))

\* <<cos(th/2), sin(th/2)>> for th = atan2(yv, xv): cos(w*tau) and
\* sin(w*tau) of tau = atan2(2*cs, cc - ss) / (2*w), by the half-angle
\* formulas, the larger of the two from cos(th) and the other from sin(th)
HalfAngle(yv, xv) ==
    IF xv = 0 /\ yv = 0 THEN <<One, 0>>
    ELSE HalfAt(yv, xv, FSqrt(FMul(xv, xv) + FMul(yv, yv)))

\* sum of the squares of yy: np.dot(y, y)
Dot(yy) == FSum([j \in DOMAIN yy |-> FMul(yy[j], yy[j])], 0, size(yy) - 1)

\* n / d; where d is 0, float64 divides one rounding error by another, and
\* the quotient is the value g
Quotient(n, d, g) == IF d = 0 THEN g ELSE FDiv(n, d)

\* the sums of one pass of the loop of lombscargle, from the cosines c and
\* the sines s of w * tt[j]
Sums(yy, c, s) ==
    [xc |-> FSum([j \in DOMAIN c |-> FMul(yy[j], c[j])], 0, size(c) - 1),
     xs |-> FSum([j \in DOMAIN c |-> FMul(yy[j], s[j])], 0, size(c) - 1),
     cc |-> FSum([j \in DOMAIN c |-> FMul(c[j], c[j])], 0, size(c) - 1),
     ss |-> FSum([j \in DOMAIN c |-> FMul(s[j], s[j])], 0, size(c) - 1),
     cs |-> FSum([j \in DOMAIN c |-> FMul(c[j], s[j])], 0, size(c) - 1)]

\* 0.5 * (a**2 / da + b**2 / db)
HalfSum(a, b, da, db, g) ==
    (Quotient(FMul(a, a), da, g) + Quotient(FMul(b, b), db, g)) \div 2

\* the periodogram from the sums sm, c_tau = cos(w*tau), s_tau = sin(w*tau)
\* and their products
Rotated(sm, c_tau, s_tau, c_tau2, s_tau2, cs_tau, g) ==
    HalfSum(FMul(c_tau, sm.xc) + FMul(s_tau, sm.xs),
            FMul(c_tau, sm.xs) - FMul(s_tau, sm.xc),
            FMul(c_tau2, sm.cc) + FMul(cs_tau, sm.cs) + FMul(s_tau2, sm.ss),
            FMul(c_tau2, sm.ss) - FMul(cs_tau, sm.cs) + FMul(s_tau2, sm.cc),
            g)

\* the periodogram from the sums sm and h = <<cos(w*tau), sin(w*tau)>>
AtTau(sm, h, g) ==
    Rotated(sm, h[1], h[2], FMul(h[1], h[1]), FMul(h[2], h[2]),
            2 * FMul(h[1], h[2]), g)

\* the periodogram from the sums sm
FromSums(sm, g) == AtTau(sm, HalfAngle(2 * sm.cs, sm.cc - sm.ss), g)

\* one pass of the loop of lombscargle over the requested frequencies, in
\* rounded arithmetic: the periodogram of yy at timestamps tt, at angular
\* frequency w # 0, g the value of a quotient of rounding errors
LSPowerFloat(tt, yy, w, g) ==
    FromSums(Sums(yy, [j \in DOMAIN tt |-> FCos(FMul(w, tt[j]))] @@ << >>,
                      [j \in DOMAIN tt |-> FSin(FMul(w, tt[j]))] @@ << >>), g)

\* lombscargle(x, y, freqs, normalize=True) in rounded arithmetic
lombscargleFloat(tt, yy, ww, normalize, g) ==
    IF size(tt) # size(yy)
    THEN [raised |-> "ValueError", value |-> EmptyArray]
    ELSE [raised |-> "none",
          value |->
              [i \in DOMAIN ww |->
                  IF normalize
                  THEN FDiv(2 * LSPowerFloat(tt, yy, ww[i], g), Dot(yy))
                  ELSE LSPowerFloat(tt, yy, ww[i], g)] @@ << >>]

\* frequencies multiplied by 1 instead of 2*pi
TimesOne(fr) == [i \in DOMAIN fr |-> fr[i]]

\* angular_frequencies = 2 * np.pi * frequencies
TimesTwoPi(fr) == [i \in DOMAIN fr |-> FMul(TwoPi, fr[i])]

\* the signal of two tones: timestamps 0, 0.3, 0.7, 1.5 and 2.2
ToneTimes == Array(<<Fx(0, 10), Fx(3, 10), Fx(7, 10), Fx(15, 10), Fx(22, 10)>>)

\* S = A*np.sin(2*np.pi*f1*t) + B*np.sin(2*np.pi*f2*t) with A = 1, f1 = 1,
\* B = 0.5 and f2 = 3
TwoTones(tt) ==
    [j \in DOMAIN tt |->
        FSin(FMul(TwoPi, tt[j])) + FSin(FMul(3 * TwoPi, tt[j])) \div 2]

\* the float64 values of an array of rationals
Float(q) == [i \in DOMAIN q |-> Fx(q[i][1], q[i][2])]

\* frequencies = np.linspace(0.5, 5, 50)
ToneGrid == Float(linspace(1, 10, 2, 50))

\* the frequency grids of the two-tone signal: 50 points from 0.5 to 5, and
\* the 50 points whose angular frequencies go from 0.5 to 5
ToneGrids == {ToneGrid, [i \in 0..49 |-> FDiv(ToneGrid[i], TwoPi)]}

-----------------------------------------------------------------------------
(* Correlation *)

\* the samples of a template of m samples, and of the signal built from it,
\* are whole multiples of 1 / Unit(m)
Unit(m) == IF m = 1 THEN 1 ELSE (m - 1) * (m - 1)

\* A = ((sawtooth(-2 * np.pi * t) + 1) / 2) ** 2.0 for
\* t = np.linspace(0, 1, m): sawtooth is -1 at t = 0 and t = 1 and 1 - 2t in
\* between, so A is 0 at both ends and (1 - t)^2 in between
Template(m) ==
    [i \in 0..(m - 1) |->
        IF i = 0 \/ i = m - 1 THEN 0 ELSE (m - 1 - i) * (m - 1 - i)]

\* B = np.zeros(n); B[p:p+len(a)] = amplitude * a; B += background
Flare(a, n, p, amplitude, background) ==
    [i \in 0..(n - 1) |->
        (IF p <= i /\ i < p + size(a) THEN amplitude * a[i - p] ELSE 0)
            + background * Unit(size(a))]

\* the arrays np.random.poisson(lam) can return for rates lam >= 0, in
\* multiples of 1 / u: whole counts, 0 where the rate is 0
poisson(lam, u) ==
    {b \in [DOMAIN lam -> {c * u : c \in 0..MaxCount}] :
        \A i \in DOMAIN lam : lam[i] = 0 => b[i] = 0}

\* b[i], 0 outside of b
At(b, i) == IF i \in DOMAIN b THEN b[i] ELSE 0

\* the convolution of a and b in place of their correlation
correlateConvolved(a, b) ==
    [k \in 0..(size(a) + size(b) - 2) |->
        FSum([l \in DOMAIN a |-> a[l] * At(b, k - l)], 0, size(a) - 1)]
    @@ << >>

\* the correlation without the term of a[0]
correlateTruncated(a, b) ==
    [k \in 0..(size(a) + size(b) - 2) |->
        FSum([l \in DOMAIN a |-> a[l] * At(b, l - k + size(b) - 1)],
             1, size(a) - 1)]
    @@ << >>

\* scipy.signal.correlate(a, b) (mode "full") of real arrays: entry k is the
\* sum over l of a[l] * b[l - k + len(b) - 1], the correlation at the lag
\* k - (len(b) - 1)
correlate(a, b) ==
    [k \in 0..(size(a) + size(b) - 2) |->
        FSum([l \in DOMAIN a |-> a[l] * At(b, l - k + size(b) - 1)],
             0, size(a) - 1)]
    @@ << >>

\* a[h:]
From(a, h) == [i \in 0..(size(a) - h - 1) |-> a[i + h]]

-----------------------------------------------------------------------------
(* The cells *)

TypeOK ==
    /\ cell \in {"sine", "half", "noise", "dirac", "S", "S_ls", "two_tone",
                 "solar", "doubled", "flares", "cross", "auto"}
    /\ done \in BOOLEAN
    /\ err \in {"none", "ValueError"}

\* np.arange(n)
arange(n) == [i \in 0..(n - 1) |-> i]

\* of the arrays of n random numbers, the two whose only sample that is not
\* zero is the first or the last
Spikes(n) == {Dirac(n, 0), Dirac(n, n - 1)}

\* half as an earlier cell left it: half = len(x) // 2 for a sine curve of
\* any of the lengths
Halves == {n \div 2 : n \in FFTLengths}

\* no template and no signal yet
InitCorr ==
    /\ A = EmptyArray
    /\ B = EmptyArray
    /\ C = EmptyArray
    /\ D = EmptyArray

\* the arrays the cell to run reads
InitCell ==
    \/ /\ cell = "sine"
       /\ \E p \in SineParams : N = p[1] /\ f0 = p[2]
       /\ x = EmptyArray
       /\ t = EmptyArray
       /\ frequencies = EmptyArray
    \/ /\ cell = "noise"
       /\ x \in Noise
       /\ N = size(x)
       /\ f0 = 0
       /\ t = EmptyArray
       /\ frequencies = EmptyArray
    \/ /\ cell = "dirac"
       /\ x \in Diracs
       /\ N = size(x)
       /\ f0 = 0
       /\ t = EmptyArray
       /\ frequencies = EmptyArray
    \/ /\ cell = "S"
       /\ N \in FFTLengths
       /\ x \in Spikes(N)
       /\ f0 \in 0..MaxF0
       /\ frequencies = EmptyArray
    \/ /\ cell = "S_ls"
       /\ t \in Timestamps
       /\ x \in Signals(size(t))
       /\ frequencies \in Grids
       /\ N = size(x)
       /\ f0 = 0
    \/ /\ cell = "two_tone"
       /\ t = ToneTimes
       /\ x = EmptyArray
       /\ frequencies \in ToneGrids
       /\ N = size(t)
       /\ f0 = 0
    \/ /\ cell = "solar"
       /\ x \in Wolf
       /\ N = size(x)
       /\ f0 = 0
       /\ t = EmptyArray
       /\ frequencies = EmptyArray
    \/ /\ cell = "flares"
       /\ x = EmptyArray
       /\ N = 0
       /\ f0 = 0
       /\ t = EmptyArray
       /\ frequencies = EmptyArray

\* the signal S has N_data samples over the time t_max: half = N_data // 2;
\* t = np.linspace(0, t_max, N_data); the other cells run before it
InitData ==
    IF cell = "S"
    THEN /\ N_data = N
         /\ t_max \in 1..MaxDuration
         /\ t = linspace(0, t_max, 1, N_data)
    ELSE /\ N_data = 0
         /\ t_max = 0

Init ==
    /\ done = FALSE
    /\ err = "none"
    /\ DFT = EmptyArray
    /\ freq = EmptyArray
    /\ freqs = EmptyArray
    /\ power = EmptyArray
    /\ angular_frequencies = EmptyArray
    /\ periodogram = EmptyArray
    /\ InitCell
    /\ InitData
    /\ half \in (IF cell = "noise" THEN Halves ELSE {N_data \div 2})
    /\ plot_freq = EmptyArray
    /\ plot_power = EmptyArray
    /\ periods = EmptyArray
    /\ InitCorr

\* DFT = np.fft.fft(a); freq = np.fft.fftfreq(a.size) * c;
\* plt.plot(freq, np.abs(DFT)**2)
Transform(a, c) ==
    LET r == fft(a)
    IN  IF r.raised # "none"
        THEN /\ err' = r.raised
             /\ UNCHANGED <<DFT, freq, freqs, power>>
        ELSE /\ err' = "none"
             /\ DFT' = r.value
             /\ freq' = FreqTimes(fftfreq(size(a)), c)
             /\ power' = Power(r.value)
             /\ UNCHANGED freqs

\* plt.plot(freq[:h], np.abs(DFT[:h])**2), unless the transform raised
PlotHalf(h) ==
    IF err' # "none"
    THEN UNCHANGED <<plot_freq, plot_power>>
    ELSE /\ plot_freq' = Take(freq', h)
         /\ plot_power' = Take(power', h)

\* the sine curve and its discrete Fourier transform, plotted in full
SineDFT ==
    /\ cell = "sine" /\ ~done
    /\ t' = linspace(-1, 1, 2, N)
    /\ x' = SineCurve(N, f0)
    /\ Transform(x', N)
    /\ PlotHalf(size(x'))
    /\ done' = TRUE
    /\ UNCHANGED <<cell, N, f0, half, periods, dataVars, corrVars>>
    /\ UNCHANGED <<frequencies, angular_frequencies, periodogram>>

\* only the positive half of the transform of the sine curve:
\* half = len(x) // 2; plt.plot(freq[:half], np.abs(DFT[:half])**2)
PositiveHalf ==
    /\ cell = "sine" /\ done /\ err = "none"
    /\ cell' = "half"
    /\ half' = size(x) \div 2
    /\ plot_freq' = Take(freq, half')
    /\ plot_power' = Take(power, half')
    /\ UNCHANGED <<done, err, N, f0, x, fourierVars, lsVars, periods>>
    /\ UNCHANGED <<dataVars, corrVars>>

\* the white noise, after the cells of the sine curve: N = 1000;
\* t = np.arange(N); noise = np.random.normal(0, .4, N), N any length
WhiteNoise ==
    /\ cell = "half" /\ done
    /\ cell' = "noise"
    /\ done' = FALSE
    /\ N' \in FFTLengths
    /\ t' = arange(N')
    /\ x' \in Spikes(N')
    /\ UNCHANGED <<err, f0, fourierVars, plotVars, periods, dataVars>>
    /\ UNCHANGED <<frequencies, angular_frequencies, periodogram, corrVars>>

\* the Fourier spectrum of the white noise
NoiseDFT ==
    /\ cell = "noise" /\ ~done
    /\ Transform(x, 1)
    /\ PlotHalf(half)
    /\ done' = TRUE
    /\ UNCHANGED <<cell, N, f0, x, lsVars, half, periods, dataVars, corrVars>>

\* the Fourier transform of a Dirac delta
DiracDFT ==
    /\ cell = "dirac" /\ ~done
    /\ half' = size(x) \div 2
    /\ Transform(x, 1)
    /\ PlotHalf(half')
    /\ done' = TRUE
    /\ UNCHANGED <<cell, N, f0, x, lsVars, periods, dataVars, corrVars>>

\* the Fourier transform of the signal S: DFT = np.fft.fft(S);
\* freq = N_data/t_max*np.fft.fftfreq(S.size);
\* plt.plot(freq[:half], np.abs(DFT[:half])**2)
SignalDFT ==
    /\ cell = "S" /\ ~done
    /\ LET r == fft(x)
       IN  IF r.raised # "none"
           THEN /\ err' = r.raised
                /\ UNCHANGED <<DFT, freq, power>>
           ELSE /\ err' = "none"
                /\ DFT' = r.value
                /\ freq' = FreqScaled(fftfreq(size(x)), N_data, t_max)
                /\ power' = Power(r.value)
    /\ PlotHalf(half)
    /\ done' = TRUE
    /\ UNCHANGED <<cell, N, f0, x, freqs, half, periods, dataVars, corrVars>>
    /\ UNCHANGED <<t, frequencies, angular_frequencies, periodogram>>

\* periodogram = r, the outcome of lombscargle: its exception if it raised
\* one, else its value
Returned(r) ==
    IF r.raised # "none"
    THEN /\ err' = r.raised
         /\ UNCHANGED periodogram
    ELSE /\ err' = "none"
         /\ periodogram' = r.value

\* angular_frequencies = 2 * np.pi * frequencies
\* periodogram = lombscargle(tt, yy, angular_frequencies, normalize=True)
Periodogram(tt, yy) ==
    /\ angular_frequencies' = Angular(frequencies')
    /\ Returned(lombscargle(tt, yy, angular_frequencies', TRUE))

\* the Lomb-Scargle periodogram of S
SLombScargle ==
    /\ cell = "S_ls" /\ ~done
    /\ frequencies' = frequencies
    /\ Periodogram(t, x)
    /\ done' = TRUE
    /\ UNCHANGED <<cell, N, f0, x, t, fourierVars>>
    /\ UNCHANGED <<plotVars, periods, dataVars, corrVars>>

\* the signal of two tones and its Lomb-Scargle periodogram; a quotient of
\* two rounding errors (a sum of squares that is 0 but for rounding under a
\* sum of products that is) lies between 0 and the sum of the squares of
\* the samples, and is either here
TwoTone ==
    /\ cell = "two_tone" /\ ~done
    /\ x' = TwoTones(t)
    /\ angular_frequencies' = TimesTwoPi(frequencies)
    /\ \E g \in {0, Dot(x')} :
          Returned(lombscargleFloat(t, x', angular_frequencies', TRUE, g))
    /\ done' = TRUE
    /\ UNCHANGED <<cell, N, f0, t, frequencies, fourierVars>>
    /\ UNCHANGED <<plotVars, periods, dataVars, corrVars>>

\* 1.0 / q for the frequency q: infinity for the frequency 0, as numpy
\* divides
Reciprocal(q) == Div(<<q[2], 0>>, <<q[1], 0>>)

\* DFT = np.fft.rfft(a); freqs = np.fft.rfftfreq(n=a.size);
\* power = np.abs(DFT) ** 2.0; plot(freqs, power); plot(1.0/freqs, power)
\* frequencies = np.linspace(0.01, 1.0, N_freqs);
\* periodogram = lombscargle(tt, a, angular_frequencies, normalize=True)
SpectrumAndPeriodogram(tt, a) ==
    LET r == rfft(a)
    IN  IF r.raised # "none"
        THEN /\ err' = r.raised
             /\ UNCHANGED <<DFT, freqs, power, frequencies,
                            angular_frequencies, periodogram>>
             /\ UNCHANGED <<plot_freq, plot_power, periods>>
        ELSE /\ DFT' = r.value
             /\ freqs' = rfftfreq(size(a))
             /\ power' = Power(r.value)
             /\ plot_freq' = freqs'
             /\ plot_power' = power'
             /\ periods' = [i \in DOMAIN freqs' |-> Reciprocal(freqs'[i])]
             /\ frequencies' = SolarGrid
             /\ Periodogram(tt, a)

\* Solar Cycles: the sunspot numbers, their spectrum and periodogram
SolarCycles ==
    /\ cell = "solar" /\ ~done
    /\ t' = Year(x)
    /\ SpectrumAndPeriodogram(t', x)
    /\ done' = TRUE
    /\ UNCHANGED <<cell, N, f0, x, freq, half, dataVars, corrVars>>

\* the sunspot numbers doubled: year_doubled = np.append(year, year+9+288),
\* wolf_doubled = np.append(wolf, wolf), their spectrum and periodogram
Doubled ==
    /\ cell = "solar" /\ done /\ err = "none"
    /\ cell' = "doubled"
    /\ t' = append(t, Plus(t, Shift))
    /\ x' = append(x, x)
    /\ SpectrumAndPeriodogram(t', x')
    /\ UNCHANGED <<done, N, f0, freq, half, dataVars, corrVars>>

\* B = np.random.poisson(b) if shot_noise, which raises for a negative rate
ShotNoise(b, u, shot_noise) ==
    IF ~shot_noise
    THEN B' = b /\ err' = "none"
    ELSE IF \E i \in DOMAIN b : b[i] < 0
    THEN B' = b /\ err' = "ValueError"
    ELSE B' \in poisson(b, u) /\ err' = "none"

\* the template and the simulated signal: t = np.linspace(0, 1, m), the
\* sawtooth template A, B = np.zeros(n) with the first flare amplitude1 * A
\* at p and the background; the second flare has the amplitude 0
Flares ==
    /\ cell = "flares" /\ ~done
    /\ \E m \in 1..MaxTemplate, n \in 1..MaxSignal, p \in 0..MaxSignal,
          amplitude1 \in 1..MaxAmplitude,
          background \in (-MaxBackground)..MaxBackground,
          shot_noise \in BOOLEAN :
          /\ p + m <= n
          /\ t' = linspace(0, 1, 1, m)
          /\ A' = Template(m)
          /\ ShotNoise(Flare(A', n, p, amplitude1, background), Unit(m),
                       shot_noise)
    /\ done' = TRUE
    /\ UNCHANGED <<cell, N, f0, x, fourierVars, plotVars, periods, dataVars>>
    /\ UNCHANGED <<frequencies, angular_frequencies, periodogram, C, D>>

\* the cross-correlogram: C = correlate(B, A); plt.plot(C, "k-")
CrossCorrelogram ==
    /\ cell = "flares" /\ done /\ err = "none"
    /\ cell' = "cross"
    /\ C' = correlate(B, A)
    /\ UNCHANGED <<done, err, N, f0, x, fourierVars, lsVars, plotVars>>
    /\ UNCHANGED <<periods, dataVars, A, B, D>>

\* the auto-correlogram: D = correlate(B, B); D = D[D.size // 2:]
AutoCorrelogram ==
    /\ cell = "cross" /\ done /\ err = "none"
    /\ cell' = "auto"
    /\ LET full == correlate(B, B)
       IN  D' = From(full, size(full) \div 2)
    /\ UNCHANGED <<done, err, N, f0, x, fourierVars, lsVars, plotVars>>
    /\ UNCHANGED <<periods, dataVars, A, B, C>>

Next ==
    \/ SineDFT
    \/ PositiveHalf
    \/ WhiteNoise
    \/ NoiseDFT
    \/ DiracDFT
    \/ SignalDFT
    \/ SLombScargle
    \/ TwoTone
    \/ SolarCycles
    \/ Doubled
    \/ Flares
    \/ CrossCorrelogram
    \/ AutoCorrelogram

Spec == Init /\ [][Next]_vars

-----------------------------------------------------------------------------
(* Properties *)

\* the cell ran and its transform raised nothing
Ran == done /\ err = "none"

\* the cell is one that plots the full transform (fft and fftfreq)
FullSpectrum == cell \in {"sine", "half", "noise", "dirac", "S"}

\* the cell is one that plots the transform of real input (rfft and
\* rfftfreq)
RealSpectrum == cell \in {"solar", "doubled"}

\* len(x) // 2
Half(a) == size(a) \div 2

IsZero(a) == \A i \in DOMAIN a : a[i] = RZero

\* C1: the power spectrum of a real input of N >= 1 samples, the squared
\* magnitude of the transform of the full sequence, is symmetric:
\* power[k] = power[N-k] for every bin k, bin N being bin 0 (the bins are
\* counted modulo N).
PowerSymmetric ==
    (Ran /\ FullSpectrum) =>
        \A k \in DOMAIN power : power[k] = power[(size(x) - k) % size(x)]

\* a spectrum of 12 bins whose bin 5 is neither empty nor equal to bin 4
PowerSymmetricWitness ==
    /\ Ran /\ FullSpectrum
    /\ size(power) = 12
    /\ power[5] # RZero
    /\ power[5] # power[4]
    /\ power[0] # power[5]

\* C3: the transform of an empty sample sequence fails (numpy's ValueError
\* is the InvalidInput of the specification) and produces no power values.
EmptyInputFails ==
    (done /\ FullSpectrum /\ size(x) = 0) =>
        (err = "ValueError" /\ power = EmptyArray)

EmptyInputWitness ==
    done /\ FullSpectrum /\ size(x) = 0 /\ err = "ValueError"

\* C6: the power spectrum of a sinusoid of f whole cycles over its N
\* samples, f one of the non-mirror bins 0..N//2-1, is largest at bin f
\* among the non-mirror bins; so is that of the notebook's sine curve.
PeakAtF0 ==
    (Ran /\ FullSpectrum) =>
        /\ \A f \in 0..(Half(x) - 1), ph \in 0..11 :
              (x = Sinusoid(size(x), f, ph) /\ ~IsZero(x)) =>
                  \A k \in 0..(Half(x) - 1) :
                      k # f => RLess(power[k], power[f])
        /\ (cell = "sine" /\ f0 < Half(x)) =>
              \A k \in 0..(Half(x) - 1) :
                  k # f0 => RLess(power[k], power[f0])

\* 12 samples of a sinusoid of 5 cycles, and the notebook's sine curve of
\* one cycle over 4 samples
PeakAtF0Witness ==
    /\ Ran /\ FullSpectrum
    /\ \/ /\ x = Sinusoid(12, 5, 1)
          /\ power[5] # RZero
       \/ /\ cell = "sine" /\ N = 4 /\ f0 = 1
          /\ power[1] # RZero

\* C7: an all-zero input of N >= 1 samples gives N power values, all zero.
ZeroPower ==
    (done /\ FullSpectrum /\ size(x) >= 1 /\ IsZero(x)) =>
        /\ err = "none"
        /\ size(power) = size(x)
        /\ IsZero(power)

ZeroPowerWitness ==
    done /\ FullSpectrum /\ size(x) = 4 /\ IsZero(x) /\ size(power) = 4 /\ IsZero(power)

\* the timestamps increase strictly
Increasing(tt) == \A j \in 1..(size(tt) - 1) : tt[j - 1] < tt[j]

\* the periodogram cell has run
LSRan == cell \in {"S_ls", "solar", "doubled"} /\ done

FewPairs == size(t) < 3

NonPositive == \E i \in DOMAIN angular_frequencies : angular_frequencies[i] <= 0

LSOneValuePerFrequency ==
    (LSRan /\ err = "none") =>
        /\ size(periodogram) = size(frequencies)
        /\ \A i \in DOMAIN frequencies :
              /\ angular_frequencies[i] * frequencies[i][2] = 4 * frequencies[i][1]
              /\ periodogram[i] = Normalize(LSPower(t, x, angular_frequencies[i]), x)

\* three pairs at increasing timestamps, two frequencies above zero, and
\* two different values, the first of them finite
LSOneValuePerFrequencyWitness ==
    /\ LSRan /\ err = "none"
    /\ size(t) = 3 /\ Increasing(t) /\ ~NonPositive
    /\ size(periodogram) = 2
    /\ periodogram[0].kind = "num"
    /\ periodogram[0] # periodogram[1]

\* the bin of the transform of size(x) samples that the frequency fr,
\* c times a number of cycles per sample, stands for
BinOf(fr, c) == ((fr[1] * size(x)) \div (fr[2] * c)) % size(x)

\* the bin that the entry fr of freq stands for: the sine curve's freq is
\* fftfreq times N, the signal S's is fftfreq times N_data/t_max
FreqBin(fr) ==
    IF cell \in {"sine", "half"} THEN BinOf(fr, N)
    ELSE IF cell = "S" THEN BinOf(Rat(fr[1] * t_max, fr[2]), N_data)
    ELSE BinOf(fr, 1)

TwoToneRan == cell = "two_tone" /\ done /\ err = "none"

\* the interior local maxima of the periodogram p
Peaks(p) == {i \in 1..(size(p) - 2) : p[i - 1] < p[i] /\ p[i] > p[i + 1]}

\* the peaks of the set S at which p is largest
Largest(p, S) == {i \in S : \A j \in S : p[j] <= p[i]}

\* the two largest peaks of p
TwoLargest(p) ==
    Largest(p, Peaks(p)) \cup Largest(p, Peaks(p) \ Largest(p, Peaks(p)))

\* the requested angular frequency i is within one grid spacing of w
Near(i, w) ==
    Abs(angular_frequencies[i] - w)
        <= angular_frequencies[1] - angular_frequencies[0]

\* the two largest peaks are within one grid spacing of 2*pi*1 and 2*pi*3
PeaksAtTones ==
    /\ Cardinality(TwoLargest(periodogram)) = 2
    /\ \E i \in TwoLargest(periodogram) : Near(i, TwoPi)
    /\ \E j \in TwoLargest(periodogram) : Near(j, 3 * TwoPi)

\* the 50 values of a go from lo to hi (a rounding of 10 millionths aside)
Spans(a, lo, hi) ==
    /\ size(a) = 50
    /\ Abs(a[0] - lo) <= 10
    /\ Abs(a[49] - hi) <= 10

\* C5 as stated: on the grid of 50 angular frequencies from 0.5 to 5 rad/s
\* the two largest peaks of the periodogram of the two-tone signal are
\* within one grid spacing of 2*pi*1 and 2*pi*3 rad/s.
PeaksOnRadianGrid ==
    (TwoToneRan /\ Spans(angular_frequencies, Fx(1, 2), Fx(5, 1))) =>
        PeaksAtTones

\* C5 as amended: on the grid of 50 frequencies from 0.5 to 5 cycles per
\* unit of time, handed to lombscargle as the angular frequencies 2*pi times
\* the grid, the two largest peaks of the periodogram of the two-tone signal
\* are within one grid spacing of 2*pi*1 and 2*pi*3 rad/s.
PeaksOnFrequencyGrid ==
    (TwoToneRan /\ Spans(frequencies, Fx(1, 2), Fx(5, 1))) => PeaksAtTones

\* the two largest peaks are at indices 5 and 27 of the grid, 0.959 and
\* 2.980 cycles per unit of time, whatever the last value of the periodogram
PeaksOnFrequencyGridWitness ==
    /\ TwoToneRan
    /\ Spans(frequencies, Fx(1, 2), Fx(5, 1))
    /\ TwoLargest(periodogram) = {5, 27}
    /\ periodogram[49] > periodogram[5]

\* C10 as stated: the timestamps handed to lombscargle by the sunspot cells
\* increase strictly, whatever the number of sunspot numbers loaded (the
\* years of the data followed by the years of its copy, 9 + 288 later).
YearsIncreasing ==
    (cell \in {"solar", "doubled"} /\ done /\ err = "none") => Increasing(t)

\* C11: where the power of the real transform is plotted against the period
\* 1.0/freqs, the zero-frequency term is left out: no period is the quotient
\* of a division by the frequency 0.
NoPeriodOfZeroFrequency ==
    (RealSpectrum /\ Ran) =>
        \A i \in DOMAIN periods :
            freqs[i][1] # 0 /\ periods[i].kind = "num"

\* the cell has plotted freq[:half] against np.abs(DFT[:half])**2
HalfPlotted == cell \in {"half", "noise", "dirac", "S"} /\ Ran

\* C12 as stated: wherever freq[:half] is plotted against the power of
\* DFT[:half], half is the floor of half the length of the DFT plotted.
HalfOfPlottedTransform == HalfPlotted => half = size(DFT) \div 2

\* C13 as stated: where half is N // 2 for the N >= 2 samples transformed,
\* the plotted frequencies freq[:half] hold no negative frequency and leave
\* out no positive frequency of freq.
PositiveFrequenciesPlotted ==
    (HalfPlotted /\ half = size(x) \div 2 /\ size(x) >= 2) =>
        /\ \A i \in DOMAIN plot_freq : plot_freq[i][1] >= 0
        /\ \A i \in DOMAIN freq :
              freq[i][1] > 0 => \E j \in DOMAIN plot_freq : plot_freq[j] = freq[i]

\* the spacing tt[1] - tt[0] of the timestamps tt
Spacing(tt) == Rat(tt[1][1] * tt[0][2] - tt[0][1] * tt[1][2], tt[1][2] * tt[0][2])

\* the fraction fr is k / (n * dt)
IsBinFrequency(fr, k, n, dt) == fr[1] * n * dt[1] = k * dt[2] * fr[2]

\* C16 as stated: for the sine curve and for the signal S, whose timestamps
\* come from np.linspace, the frequency of each bin k < N/2 is k / (N * dt),
\* dt the spacing of the timestamps t.
FrequencyOfBin ==
    (cell \in {"sine", "half", "S"} /\ Ran /\ size(t) >= 2) =>
        \A k \in DOMAIN freq :
            2 * k < size(x) => IsBinFrequency(freq[k], k, size(x), Spacing(t))

\* the sum of the squares of the samples of b
TotalPower(b) == FSum([i \in DOMAIN b |-> b[i] * b[i]], 0, size(b) - 1)

\* C14: after the auto-correlogram of a signal B of N >= 1 samples, D has N
\* entries, D[0] is the sum of the squares of B, and no D[k] exceeds D[0].
ZeroLagIsTotalPower ==
    (cell = "auto" /\ Ran /\ size(B) >= 1) =>
        /\ size(D) = size(B)
        /\ D[0] = TotalPower(B)
        /\ \A k \in DOMAIN D : D[k] <= D[0]

\* a signal of 3 samples, one of them negative, correlated with itself at
\* the lags 1 and 2
ZeroLagIsTotalPowerWitness ==
    /\ cell = "auto" /\ Ran /\ size(B) = 3
    /\ \E i \in DOMAIN B : B[i] < 0
    /\ D[1] # 0 /\ D[2] # 0 /\ D[1] < D[0]

\* C15 as stated: when B is one copy of the template A, starting at p, in
\* zeros, the largest entry of the plotted C = correlate(B, A) is entry p.
PeakAtTemplatePosition ==
    (cell \in {"cross", "auto"} /\ Ran /\ \E i \in DOMAIN A : A[i] # 0) =>
        \A p \in 0..(size(B) - size(A)) :
            B = Flare(A, size(B), p, 1, 0) =>
                \A j \in DOMAIN C : j # p => C[j] < C[p]

\* C17: the full auto-correlation of a signal B of N >= 1 samples has
\* 2N - 1 entries and is symmetric about its centre N - 1; the kept half D
\* holds every entry of the half that is dropped.
AutoCorrelationSymmetric ==
    (cell = "auto" /\ Ran /\ size(B) >= 1) =>
        LET full == correlate(B, B)
            n == size(B)
        IN  /\ size(full) = 2 * n - 1
            /\ \A k \in 0..(n - 1) :
                  /\ full[n - 1 + k] = full[n - 1 - k]
                  /\ D[k] = full[n - 1 - k]

\* a signal of 3 samples whose auto-correlation differs at the lags 0, 1, 2
AutoCorrelationSymmetricWitness ==
    /\ cell = "auto" /\ Ran /\ size(B) = 3
    /\ D[0] # D[1] /\ D[1] # D[2] /\ D[2] # 0
    /\ correlate(B, B)[0] = D[2]

=============================================================================
